---- MODULE Spec2Model ----
(***************************************************************************)
(* golab: a YAML intent is compiled into a topology (topology.FromYAML),   *)
(* Build/Wreck drive a virtualization provider (golab.go), and the Docker  *)
(* provider maps links to networks and nodes to containers (docker.go)     *)
(* on top of a Docker API client (the fake client used by the tests).      *)
(***************************************************************************)
EXTENDS Integers, Sequences, FiniteSets, TLC

\* ---------------------------------------------------------------- bounds
MaxNodes == 2
MaxLinks == 2
MaxEndpoints == 3
MaxKeyLen == 4

\* ------------------------------------------------------------- constants
Nil == "nil"

autoLinkNamePrefix == "golab-link-"

ErrCorruptYAML == "ErrCorruptYAML"
ErrZeroNodes == "ErrZeroNodes"
ErrMissingImage == "ErrMissingImage"
ErrUnknownProtocol == "ErrUnknownProtocol"
ErrInvalidCIDR == "ErrInvalidCIDR"
ErrMissingSubnets == "ErrMissingSubnets"
ErrSubnetExhausted == "ErrSubnetExhausted"
ErrTooFewEndpoints == "ErrTooFewEndpoints"
ErrInvalidEndpoint == "ErrInvalidEndpoint"
ErrUnknownNode == "ErrUnknownNode"
ErrInvalidInterface == "ErrInvalidInterface"

\* ------------------------------------------------------ net and go-cidr
\* A net.IP is the sequence of its bytes, 4 for IPv4 and 16 for IPv6.  A
\* string in CIDR notation is kept as the address bytes and the prefix
\* length it spells; the empty string is NoCIDR.
CIDR(ip, n) == [ip |-> ip, len |-> n]

NoCIDR == CIDR(<<>>, 0)

\* a *net.IPNet: the network address and the ones of its mask
IPNet(ip, ones) == [IP |-> ip, Ones |-> ones]

NoIPNet == IPNet(<<>>, 0)

\* the number of mask bits that fall into byte k of an address
Keep(k, ones) ==
    IF ones >= 8 * k THEN 8
    ELSE IF ones <= 8 * (k - 1) THEN 0
    ELSE ones - 8 * (k - 1)

\* ip.Mask(net.CIDRMask(ones, 8*len(ip)))
Mask(ip, ones) ==
    [k \in 1..Len(ip) |->
        (ip[k] \div 2^(8 - Keep(k, ones))) * 2^(8 - Keep(k, ones))]

\* net.ParseCIDR: the address as written, and the network it lies in
ParseCIDR(s) ==
    IF /\ Len(s.ip) \in {4, 16}
       /\ \A k \in 1..Len(s.ip) : s.ip[k] \in 0..255
       /\ s.len \in 0..(8 * Len(s.ip))
    THEN [err |-> Nil, ip |-> s.ip, ipnet |-> IPNet(Mask(s.ip, s.len), s.len)]
    ELSE [err |-> ErrInvalidCIDR, ip |-> <<>>, ipnet |-> NoIPNet]

\* (*net.IPNet).String
String(ipnet) == CIDR(ipnet.IP, ipnet.Ones)

\* ip.To4() != nil: a 4-byte address or an IPv4-mapped 16-byte one
IsIPv4(ip) ==
    \/ Len(ip) = 4
    \/ /\ Len(ip) = 16
       /\ \A k \in 1..10 : ip[k] = 0
       /\ ip[11] = 255
       /\ ip[12] = 255

\* cidr.AddressRange: the first and the last address of a network
AddressRange(ipnet) ==
    [first |-> ipnet.IP,
     last |-> [k \in 1..Len(ipnet.IP) |->
                 ipnet.IP[k] + 2^(8 - Keep(k, ipnet.Ones)) - 1]]

RECURSIVE incAt(_, _)
incAt(ip, k) ==
    IF k = 0 THEN ip
    ELSE IF ip[k] < 255 THEN [ip EXCEPT ![k] = @ + 1]
    ELSE incAt([ip EXCEPT ![k] = 0], k - 1)

\* cidr.Inc: the next address, wrapping past the last one
Inc(ip) == incAt(ip, Len(ip))

RECURSIVE decAt(_, _)
decAt(ip, k) ==
    IF k = 0 THEN ip
    ELSE IF ip[k] > 0 THEN [ip EXCEPT ![k] = @ - 1]
    ELSE decAt([ip EXCEPT ![k] = 255], k - 1)

\* cidr.Dec: the previous address, wrapping below the first one
Dec(ip) == decAt(ip, Len(ip))

\* the address ip + n, byte by byte with carry
RECURSIVE addAt(_, _, _)
addAt(ip, k, n) ==
    IF k = 0 \/ n = 0 THEN ip
    ELSE addAt([ip EXCEPT ![k] = (@ + n) % 256], k - 1, (ip[k] + n) \div 256)

\* num <= 2^hostLen - 1, for the host numbers the model asks for
HostFitsAny(num, hostLen) == TRUE

HostFits(num, hostLen) == hostLen >= 30 \/ num <= 2^hostLen - 1

\* cidr.Host: host number num of a network; the network's host bits are
\* zero, so inserting num is adding it
Host(ipnet, num) ==
    IF HostFits(num, 8 * Len(ipnet.IP) - ipnet.Ones)
    THEN [err |-> Nil, ip |-> addAt(ipnet.IP, Len(ipnet.IP), num)]
    ELSE [err |-> "does not accommodate host", ip |-> <<>>]

\* cidr.NextSubnet: the network of prefixLen bits after the one that holds
\* the last address of ipnet, and whether the address space rolled over
NextSubnet(ipnet, prefixLen) ==
    LET currentLast == AddressRange(ipnet).last
        currentSubnet == IPNet(Mask(currentLast, prefixLen), prefixLen)
        last == Inc(AddressRange(currentSubnet).last)
    IN [net |-> IPNet(Mask(last, prefixLen), prefixLen),
        rollover |-> \A k \in 1..Len(last) : last[k] = 0]

\* a < b for two addresses of one family
RECURSIVE lessAt(_, _, _)
lessAt(a, b, k) ==
    IF k > Len(a) THEN FALSE
    ELSE IF a[k] # b[k] THEN a[k] < b[k]
    ELSE lessAt(a, b, k + 1)

IPLess(a, b) == lessAt(a, b, 1)

\* ------------------------------------------------------------ the intent
\* A YAML document is either undeserializable or a tree with a node map, a
\* link list and an optional ip_start_from.  An endpoint "R1:eth1" is kept
\* as the result of splitting it on ":".  Bind mounts are left out: they are
\* read and written by populateBinds alone.
NodeName(i) == "R" \o ToString(i)

UserLinkNames == {"", autoLinkNamePrefix \o "2"}

FRRImage == "quay.io/frrouting/frr:master"
OtherImage == "alpine:latest"

\* a []string: nil when its yaml key is absent, else its elements
NilSlice == [isNil |-> TRUE, elems |-> <<>>]

Slice(elems) == [isNil |-> FALSE, elems |-> elems]

\* the value of the yaml key ip_start_from: absent, or its two lists
NoPool == [isNil |-> TRUE, RawLinks |-> NilSlice, RawLoopbacks |-> NilSlice]

Pool(links, loopbacks) ==
    [isNil |-> FALSE, RawLinks |-> links, RawLoopbacks |-> loopbacks]

YAMLNode(image, enable, loopbacks) ==
    [Image |-> image, Enable |-> enable, Loopbacks |-> loopbacks]

DefaultNode == YAMLNode(FRRImage, <<>>, NilSlice)

YAMLLink(name, endpoints, subnets) ==
    [Name |-> name, Endpoints |-> endpoints, RawSubnets |-> subnets]

\* the keys R1..Rn in lexical order
KeySeq(n) == [i \in 1..n |-> NodeName(i)]

Intent(nodes, order, links, pool) ==
    [corrupt |-> FALSE, nodes |-> nodes, mapOrder |-> order, links |-> links,
     pool |-> pool]

CorruptIntent ==
    [corrupt |-> TRUE, nodes |-> <<>>, mapOrder |-> <<>>, links |-> <<>>,
     pool |-> NoPool]

DefaultNodes(n) == [k \in {NodeName(i) : i \in 1..n} |-> DefaultNode]

\* link k of an intent with n nodes joins R1 to one of the other nodes and
\* declares its own subnet 100.64.0.<8(k-1)>/29
StarLink(k, n, nm) ==
    YAMLLink(nm,
             << <<NodeName(1), "eth" \o ToString(k)>>,
                <<NodeName(2 + ((k - 1) % (n - 1))), "eth" \o ToString(k)>> >>,
             Slice(<< CIDR(<<100, 64, 0, 8 * (k - 1)>>, 29) >>))

\* intents whose compilation fails after the document was deserialized
FailingIntents ==
    { Intent([k \in {NodeName(1)} |-> YAMLNode("", <<>>, NilSlice)],
             KeySeq(1), <<>>, NoPool),
      Intent(DefaultNodes(2), KeySeq(2),
             << YAMLLink("", << <<NodeName(1), "eth0">>,
                                <<NodeName(2), "eth0">> >>, NilSlice) >>,
             NoPool),
      Intent(DefaultNodes(2), KeySeq(2),
             << YAMLLink("", << <<NodeName(1), "eth0">>,
                                <<NodeName(2), "eth0">> >>,
                         Slice(<< CIDR(<<100, 64, 0, 0>>, 31) >>)) >>,
             NoPool) }

\* the intents with up to MaxNodes nodes and up to MaxLinks links; the first
\* link is unnamed or carries a user-supplied name
Intents ==
    { CorruptIntent }
    \cup
    { Intent(DefaultNodes(n), KeySeq(n), <<>>, NoPool) : n \in 0..MaxNodes }
    \cup
    { Intent(DefaultNodes(nl[1]), KeySeq(nl[1]),
             [k \in 1..nl[2] |-> StarLink(k, nl[1], IF k = 1 THEN nm ELSE "")],
             NoPool) :
         nl \in (2..MaxNodes) \X (1..MaxLinks), nm \in UserLinkNames }
    \cup
    FailingIntents

\* ------------------------------------------------------ topology.FromYAML
NoTopo == [Nodes |-> <<>>, Links |-> <<>>, IPStartFrom |-> NoPool]

EthNames == { "eth" \o ToString(k) : k \in 0..9 }

SupportedProtocols == {"isis", "ospf", "ospf6", "bgp", "ldp"}

mplsLabels == 100000

\* vendors.DetectByImage
DetectByImage(image) == IF image = FRRImage THEN "frr" ELSE "unknown"

\* yaml.Unmarshal of a well-formed document into a Topology
Unmarshal(data) ==
    [Nodes |-> [k \in DOMAIN data.nodes |->
                  [Name |-> "", Image |-> data.nodes[k].Image,
                   Vendor |-> "unknown", Interfaces |-> <<>>,
                   Loopbacks |-> data.nodes[k].Loopbacks,
                   Protocols |-> <<>>, Enable |-> data.nodes[k].Enable,
                   Sysctls |-> {}]],
     Links |-> [i \in 1..Len(data.links) |->
                  [Name |-> data.links[i].Name,
                   Endpoints |-> data.links[i].Endpoints,
                   RawSubnets |-> data.links[i].RawSubnets,
                   Subnets |-> <<>>, Gateways |-> <<>>]],
     IPStartFrom |-> data.pool]

Range(s) == { s[i] : i \in DOMAIN s }

\* slices.Sorted: node keys compare as R1 < R2 < ... < R9
Unsorted(keys) == keys

Sorted(keys) == SelectSeq(KeySeq(9), LAMBDA k : k \in Range(keys))

AnyInvalidCIDR(raws) == \E i \in DOMAIN raws : ParseCIDR(raws[i]).err # Nil

\* every subnet of a cursor replaced by the next subnet of its prefix length
NextSubnets(raws) ==
    [i \in DOMAIN raws |->
        LET ipnet == ParseCIDR(raws[i]).ipnet
        IN String(NextSubnet(ipnet, ipnet.Ones).net)]

\* the last address of the list that is (v4) or is not (~v4) an IPv4 one
LastOfFamily(addrs, v4) ==
    LET S == { i \in DOMAIN addrs : IsIPv4(addrs[i].ip) = v4 }
    IN IF S = {} THEN NoCIDR
       ELSE addrs[CHOOSE i \in S : \A j \in S : j <= i]

populateProtocols(node) ==
    IF Len(node.Enable) = 0
    THEN [err |-> Nil,
          node |-> [node EXCEPT !.Protocols =
                                   [p \in SupportedProtocols |-> "no"]]]
    ELSE IF \E i \in DOMAIN node.Enable : node.Enable[i] \notin SupportedProtocols
    THEN [err |-> ErrUnknownProtocol, node |-> node]
    ELSE [err |-> Nil,
          node |-> [node EXCEPT !.Protocols =
                      [p \in SupportedProtocols |->
                         IF p \in Range(node.Enable) THEN "yes" ELSE "no"]]]

populateLoopbacks(t, name) ==
    LET auto == t.Nodes[name].Loopbacks.isNil
    IN IF auto /\ (t.IPStartFrom.isNil \/ t.IPStartFrom.RawLoopbacks.isNil)
       THEN [err |-> Nil, topo |-> t]
       ELSE LET addrs == IF auto THEN t.IPStartFrom.RawLoopbacks.elems
                         ELSE t.Nodes[name].Loopbacks.elems
                lo == [Name |-> "lo", Link |-> "",
                       IPv4 |-> LastOfFamily(addrs, TRUE),
                       IPv6 |-> LastOfFamily(addrs, FALSE),
                       DriverOpts |-> {}]
            IN IF AnyInvalidCIDR(addrs)
               THEN [err |-> ErrInvalidCIDR, topo |-> t]
               ELSE [err |-> Nil,
                     topo |-> [t EXCEPT
                       !.Nodes[name].Loopbacks = Slice(addrs),
                       !.Nodes[name].Interfaces = Append(@, lo),
                       !.IPStartFrom.RawLoopbacks =
                           IF auto THEN Slice(NextSubnets(@.elems)) ELSE @]]

\* the loop of populateNodes over the sorted keys, from key i on
RECURSIVE nodesFrom(_, _, _)
nodesFrom(keys, i, t) ==
    IF i > Len(keys) THEN [err |-> Nil, topo |-> t]
    ELSE IF t.Nodes[keys[i]].Image = ""
    THEN [err |-> ErrMissingImage, topo |-> t]
    ELSE LET t1 == [t EXCEPT !.Nodes[keys[i]].Name = keys[i],
                             !.Nodes[keys[i]].Vendor =
                                 DetectByImage(t.Nodes[keys[i]].Image)]
             p == populateProtocols(t1.Nodes[keys[i]])
             l == populateLoopbacks([t1 EXCEPT !.Nodes[keys[i]] = p.node],
                                    keys[i])
         IN IF p.err # Nil THEN [err |-> p.err, topo |-> t1]
            ELSE IF l.err # Nil THEN l
            ELSE nodesFrom(keys, i + 1, l.topo)

\* order is the order in which the runtime ranges over the node map
populateNodes(t, order) ==
    IF Len(order) = 0 THEN [err |-> ErrZeroNodes, topo |-> t]
    ELSE nodesFrom(Sorted(order), 1, t)

\* autoSubnets: the cursor of every family moves to the next subnet
autoSubnetsStay(t) ==
    IF AnyInvalidCIDR(t.IPStartFrom.RawLinks.elems)
    THEN [err |-> ErrInvalidCIDR, topo |-> t]
    ELSE [err |-> Nil, topo |-> t]

autoSubnets(t) ==
    IF AnyInvalidCIDR(t.IPStartFrom.RawLinks.elems)
    THEN [err |-> ErrInvalidCIDR, topo |-> t]
    ELSE [err |-> Nil,
          topo |-> [t EXCEPT !.IPStartFrom.RawLinks =
                                 Slice(NextSubnets(@.elems))]]

\* the gateway of a subnet: cidr.Dec of the last address of the range
GatewayIsLast(ipnet) == AddressRange(ipnet).last

Gateway(ipnet) == Dec(AddressRange(ipnet).last)

\* the second loop of allocateIPSubnets: Subnets and Gateways of link i
parseSubnets(t, i) ==
    LET raws == t.Links[i].RawSubnets.elems
    IN IF AnyInvalidCIDR(raws)
       THEN [err |-> ErrInvalidCIDR, topo |-> t]
       ELSE [err |-> Nil,
             topo |-> [t EXCEPT
               !.Links[i].Subnets =
                   [k \in DOMAIN raws |-> ParseCIDR(raws[k]).ipnet],
               !.Links[i].Gateways =
                   [k \in DOMAIN raws |-> Gateway(ParseCIDR(raws[k]).ipnet)]]]

\* link.RawSubnets == nil: the key ip_subnets is absent
NoRawSubnets(raws) == raws.isNil

allocateIPSubnets(t, i) ==
    IF NoRawSubnets(t.Links[i].RawSubnets)
    THEN IF t.IPStartFrom.isNil \/ t.IPStartFrom.RawLinks.isNil
         THEN [err |-> ErrMissingSubnets, topo |-> t]
         ELSE LET a == autoSubnets([t EXCEPT !.Links[i].RawSubnets =
                                                t.IPStartFrom.RawLinks])
              IN IF a.err # Nil THEN a ELSE parseSubnets(a.topo, i)
    ELSE parseSubnets(t, i)

linkName(link, i) ==
    IF link.Name = "" THEN autoLinkNamePrefix \o ToString(i) ELSE link.Name

\* the address string of host number num in a subnet
HostAddr(ipnet, num) == CIDR(Host(ipnet, num).ip, ipnet.Ones)

\* the interface of endpoint j of link i
newInterface(t, i, j) ==
    LET link == t.Links[i]
        addrs == [k \in DOMAIN link.Subnets |-> HostAddr(link.Subnets[k], j)]
    IN [Name |-> link.Endpoints[j][2], Link |-> link.Name,
        IPv4 |-> LastOfFamily(addrs, TRUE),
        IPv6 |-> LastOfFamily(addrs, FALSE),
        DriverOpts |-> {}]

\* the loop of populateLinks over the endpoints of link i, from endpoint j on
RECURSIVE endpointsFrom(_, _, _)
endpointsFrom(t, i, j) ==
    LET eps == t.Links[i].Endpoints
    IN IF j > Len(eps) THEN [err |-> Nil, topo |-> t]
       ELSE IF Len(eps[j]) # 2 THEN [err |-> ErrInvalidEndpoint, topo |-> t]
       ELSE IF eps[j][1] \notin DOMAIN t.Nodes
       THEN [err |-> ErrUnknownNode, topo |-> t]
       ELSE IF eps[j][2] \notin EthNames
       THEN [err |-> ErrInvalidInterface, topo |-> t]
       ELSE IF \E k \in DOMAIN t.Links[i].Subnets :
                  Host(t.Links[i].Subnets[k], j).err # Nil
       THEN [err |-> ErrSubnetExhausted, topo |-> t]
       ELSE endpointsFrom(
              [t EXCEPT !.Nodes[eps[j][1]].Interfaces =
                            Append(@, newInterface(t, i, j))],
              i, j + 1)

\* the loop of populateLinks over the links, from link i on
RECURSIVE linksFrom(_, _)
linksFrom(t, i) ==
    IF i > Len(t.Links) THEN [err |-> Nil, topo |-> t]
    ELSE LET t1 == [t EXCEPT !.Links[i].Name = linkName(t.Links[i], i)]
             a == allocateIPSubnets(t1, i)
             e == endpointsFrom(a.topo, i, 1)
         IN IF a.err # Nil THEN a
            ELSE IF Len(a.topo.Links[i].Endpoints) < 2
            THEN [err |-> ErrTooFewEndpoints, topo |-> a.topo]
            ELSE IF e.err # Nil THEN e
            ELSE linksFrom(e.topo, i + 1)

populateLinks(t) == linksFrom(t, 1)

MPLSDriverOpts ==
    { <<"com.docker.network.endpoint.sysctls", "net.mpls.conf.IFNAME.input=1">> }

\* nodeSysctls: every node with ldp enabled is given the MPLS parameters,
\* whatever its vendor
nodeSysctlsAnyVendor(node) ==
    IF node.Protocols["ldp"] = "no" THEN node
    ELSE [node EXCEPT
           !.Sysctls =
               { <<"net.mpls.platform_labels", ToString(mplsLabels)>> }
               \cup (IF \E k \in DOMAIN node.Interfaces :
                           node.Interfaces[k].Name = "lo"
                     THEN { <<"net.mpls.conf.lo.input", "1">> } ELSE {}),
           !.Interfaces =
               [k \in DOMAIN node.Interfaces |->
                  IF node.Interfaces[k].Name = "lo" THEN node.Interfaces[k]
                  ELSE [node.Interfaces[k] EXCEPT !.DriverOpts = MPLSDriverOpts]]]

\* the sysctls and driver options populateSysctls gives one node
nodeSysctls(node) ==
    IF node.Vendor # "frr" \/ node.Protocols["ldp"] = "no" THEN node
    ELSE [node EXCEPT
           !.Sysctls =
               { <<"net.mpls.platform_labels", ToString(mplsLabels)>> }
               \cup (IF \E k \in DOMAIN node.Interfaces :
                           node.Interfaces[k].Name = "lo"
                     THEN { <<"net.mpls.conf.lo.input", "1">> } ELSE {}),
           !.Interfaces =
               [k \in DOMAIN node.Interfaces |->
                  IF node.Interfaces[k].Name = "lo" THEN node.Interfaces[k]
                  ELSE [node.Interfaces[k] EXCEPT !.DriverOpts = MPLSDriverOpts]]]

\* the loop of populateSysctls over the node map, in the runtime's order
RECURSIVE sysctlsFrom(_, _, _)
sysctlsFrom(order, k, t) ==
    IF k > Len(order) THEN t
    ELSE sysctlsFrom(order, k + 1,
                     [t EXCEPT !.Nodes[order[k]] = nodeSysctls(@)])

populateSysctls(t, order) == [err |-> Nil, topo |-> sysctlsFrom(order, 1, t)]

populate(t, order) ==
    LET n == populateNodes(t, order)
        l == populateLinks(n.topo)
    IN IF n.err # Nil THEN n
       ELSE IF l.err # Nil THEN l
       ELSE populateSysctls(l.topo, order)

\* FromYAML handing out the topology it was enriching when it failed
FromYAMLPartial(data) ==
    IF data.corrupt THEN [err |-> ErrCorruptYAML, topo |-> NoTopo]
    ELSE populate(Unmarshal(data), data.mapOrder)

FromYAML(data) ==
    LET p == populate(Unmarshal(data), data.mapOrder)
    IN IF data.corrupt THEN [err |-> ErrCorruptYAML, topo |-> NoTopo]
       ELSE IF p.err # Nil THEN [err |-> p.err, topo |-> NoTopo]
       ELSE p

\* ------------------------------------------- intents handed to FromYAML
IPv4(a, b, c, d, n) == CIDR(<<a, b, c, d>>, n)

\* 2001:db8::<h>/n
IPv6(h, n) == CIDR(<<32, 1, 13, 184, 0, 0, 0, 0, 0, 0, 0, 0, 0, 0, 0, h>>, n)

\* ffff:ffff:ffff:ffff:ffff:ffff:ffff:fffc/126
LastIPv6 == CIDR([k \in 1..16 |-> IF k = 16 THEN 252 ELSE 255], 126)

\* n endpoints on interface eth<i>, one on each of the nodes R1..Rn
Endpoints(n, i) == [j \in 1..n |-> <<NodeName(j), "eth" \o ToString(i)>>]

\* what a link may carry under ip_subnets
LinkSubnetChoices ==
    { NilSlice, Slice(<<>>),
      Slice(<< IPv4(100, 64, 0, 0, 29) >>),
      Slice(<< IPv4(100, 64, 0, 0, 30) >>),
      Slice(<< IPv4(100, 64, 0, 0, 31) >>),
      Slice(<< IPv4(100, 64, 0, 1, 32) >>),
      Slice(<< IPv4(10, 0, 0, 5, 24) >>),
      Slice(<< IPv4(0, 0, 0, 0, 0) >>),
      Slice(<< IPv4(255, 255, 255, 248, 29) >>),
      Slice(<< IPv4(256, 256, 0, 0, 29) >>),
      Slice(<< IPv6(0, 64) >>),
      Slice(<< IPv6(0, 127) >>),
      Slice(<< IPv6(0, 126) >>),
      Slice(<< IPv4(100, 64, 0, 0, 29), IPv6(0, 64) >>),
      Slice(<< IPv4(100, 64, 0, 0, 30), IPv6(0, 64) >>) }

\* second endpoints that populateLinks rejects
BadEndpoints == { <<NodeName(2)>>, <<NodeName(9), "eth0">>, <<NodeName(2), "lo0">> }

FirstLinks ==
    { YAMLLink(nm, Endpoints(n, 0), sn) :
        nm \in UserLinkNames, n \in 1..MaxEndpoints, sn \in LinkSubnetChoices }
    \cup
    { YAMLLink("", << <<NodeName(1), "eth0">>, ep >>,
               Slice(<< IPv4(100, 64, 0, 0, 31) >>)) : ep \in BadEndpoints }

RestKinds == {"pool", "declared", "short"}

\* link i > 1: two endpoints on a pool subnet, two endpoints on a declared
\* subnet, or one endpoint
RestLink(kind, i) ==
    IF kind = "pool" THEN YAMLLink("", Endpoints(2, i - 1), NilSlice)
    ELSE IF kind = "declared"
    THEN YAMLLink("", Endpoints(2, i - 1), Slice(<< IPv4(100, 64, 1, 0, 29) >>))
    ELSE YAMLLink("", Endpoints(1, i - 1), NilSlice)

LinkLists ==
    { <<>> }
    \cup
    UNION { { [i \in 1..m |-> IF i = 1 THEN f ELSE RestLink(rs[i], i)] :
                f \in FirstLinks, rs \in [2..m -> RestKinds] } :
            m \in 1..MaxLinks }

\* what ip_start_from may look like when links are under study
LinkPools ==
    { NoPool,
      Pool(NilSlice, NilSlice),
      Pool(Slice(<<>>), NilSlice),
      Pool(Slice(<< IPv4(100, 64, 0, 0, 29) >>), NilSlice),
      Pool(Slice(<< IPv4(100, 64, 0, 5, 30) >>), NilSlice),
      Pool(Slice(<< IPv4(100, 64, 0, 0, 29), IPv6(0, 64) >>), NilSlice),
      Pool(Slice(<< IPv4(255, 255, 255, 248, 29) >>), NilSlice),
      Pool(Slice(<< IPv4(0, 0, 0, 0, 0) >>), NilSlice),
      Pool(Slice(<< LastIPv6 >>), NilSlice),
      Pool(Slice(<< IPv4(256, 256, 0, 0, 29) >>), NilSlice) }

NodeChoices ==
    { DefaultNode,
      YAMLNode("", <<>>, NilSlice),
      YAMLNode(FRRImage, <<"ldp">>, NilSlice),
      YAMLNode(FRRImage, <<"rip">>, NilSlice),
      YAMLNode(OtherImage, <<"ldp">>, NilSlice),
      YAMLNode(FRRImage, <<>>, Slice(<< IPv4(192, 168, 0, 9, 32) >>)),
      YAMLNode(FRRImage, <<>>, Slice(<<>>)) }

NodePools ==
    { NoPool,
      Pool(Slice(<< IPv4(100, 64, 0, 0, 29) >>),
           Slice(<< IPv4(192, 168, 0, 1, 32), IPv6(1, 128) >>)),
      Pool(NilSlice, Slice(<< IPv4(256, 256, 0, 0, 32) >>)) }

\* the orders in which a range over a map with these keys may visit them
Orders(keys) ==
    { o \in [1..Cardinality(keys) -> keys] : Range(o) = keys }

\* intents that vary the links and the pool they draw from
CompileIntents(n) ==
    { CorruptIntent }
    \cup
    { Intent(DefaultNodes(n), KeySeq(n), ls, pool) :
        ls \in LinkLists, pool \in LinkPools }

\* intents that vary the nodes and the order their map is ranged over in
NodeIntents(m) ==
    UNION { { Intent(f, o, ls, pool) :
                f \in [{NodeName(i) : i \in 1..n} -> NodeChoices],
                o \in Orders({NodeName(i) : i \in 1..n}),
                ls \in { <<>>, << RestLink("pool", 1) >> },
                pool \in NodePools } :
            n \in 0..m }

\* ------------------------------------------------------- isValidNodeName
\* A node key is the sequence of its characters.
Digits == <<"0", "1", "2", "3", "4", "5", "6", "7", "8", "9">>

IsDigit(ch) == \E d \in DOMAIN Digits : Digits[d] = ch

DigitValue(ch) == (CHOOSE d \in DOMAIN Digits : Digits[d] = ch) - 1

\* the number a string of digits spells
RECURSIVE Decimal(_)
Decimal(s) ==
    IF Len(s) = 0 THEN 0
    ELSE 10 * Decimal(SubSeq(s, 1, Len(s) - 1)) + DigitValue(s[Len(s)])

\* strconv.Atoi of a string shorter than 19 characters: an optional sign
\* and at least one digit
Atoi(s) ==
    LET signed == Len(s) > 0 /\ s[1] \in {"+", "-"}
        body == IF signed THEN Tail(s) ELSE s
    IN IF Len(body) = 0 \/ \E i \in DOMAIN body : ~IsDigit(body[i])
       THEN [err |-> "invalid syntax", num |-> 0]
       ELSE [err |-> Nil,
             num |-> IF s[1] = "-" THEN 0 - Decimal(body) ELSE Decimal(body)]

\* strings.CutPrefix(name, "R")
CutPrefixR(name) ==
    IF Len(name) > 0 /\ name[1] = "R"
    THEN [after |-> Tail(name), found |-> TRUE]
    ELSE [after |-> name, found |-> FALSE]

isValidNodeName(name) ==
    /\ CutPrefixR(name).found
    /\ Atoi(CutPrefixR(name).after).err = Nil
    /\ Atoi(CutPrefixR(name).after).num > 0
    /\ Atoi(CutPrefixR(name).after).num < 254

KeyChars == {"R", "r", "X", "+", "-", "0", "1", "2", "3", "4", "5"}

NodeKeys(m) == UNION { [1..n -> KeyChars] : n \in 0..m }

\* ------------------------------------------------ the validated pipeline
\* An earlier FromYAML deserializes, validates and then populates the
\* topology; it derives subnets and addresses from the node keys by
\* formatting text.  A text is the sequence of its characters.
HexDigits == Digits \o <<"a", "b", "c", "d", "e", "f">>

\* the number a string of hexadecimal digits spells
RECURSIVE Hexadecimal(_)
Hexadecimal(s) ==
    IF Len(s) = 0 THEN 0
    ELSE 16 * Hexadecimal(SubSeq(s, 1, Len(s) - 1))
         + (CHOOSE d \in DOMAIN HexDigits : HexDigits[d] = s[Len(s)]) - 1

\* strconv.Itoa, fmt's %d
RECURSIVE Itoa(_)
Itoa(n) ==
    IF n < 0 THEN <<"-">> \o Itoa(0 - n)
    ELSE IF n < 10 THEN << Digits[n + 1] >>
    ELSE Itoa(n \div 10) \o << Digits[(n % 10) + 1] >>

\* strings.Cut(s, sep) for a separator of one character
Cut(s, sep) ==
    IF \E i \in DOMAIN s : s[i] = sep
    THEN LET i == CHOOSE j \in DOMAIN s :
                    s[j] = sep /\ \A k \in 1..(j - 1) : s[k] # sep
         IN [before |-> SubSeq(s, 1, i - 1),
             after |-> SubSeq(s, i + 1, Len(s)), found |-> TRUE]
    ELSE [before |-> s, after |-> <<>>, found |-> FALSE]

\* strings.TrimLeft(s, cutset) for a cutset of one character
RECURSIVE TrimLeft(_, _)
TrimLeft(s, cutset) ==
    IF Len(s) > 0 /\ s[1] = cutset THEN TrimLeft(Tail(s), cutset) ELSE s

\* strings.Split(s, sep) for a separator of one character
RECURSIVE Split(_, _)
Split(s, sep) ==
    LET c == Cut(s, sep)
    IN IF c.found THEN << c.before >> \o Split(c.after, sep) ELSE << s >>

\* net.ParseIP of a dotted quad: four decimal fields without leading zeros
ParseIPv4Text(s) ==
    LET ok(f) == /\ Len(f) \in 1..3
                 /\ \A i \in DOMAIN f : IsDigit(f[i])
                 /\ (Len(f) > 1 => f[1] # "0")
                 /\ Decimal(f) <= 255
        quad(fields) ==
            IF Len(fields) = 4 /\ \A k \in 1..4 : ok(fields[k])
            THEN [err |-> Nil, ip |-> [k \in 1..4 |-> Decimal(fields[k])]]
            ELSE [err |-> ErrInvalidCIDR, ip |-> <<>>]
    IN quad(Split(s, "."))

\* net.ParseIP of a colon-separated address: up to eight fields of one to
\* four hexadecimal digits, one run of zero fields written as "::" (e is
\* the position of the first "::", 0 when there is none; lf and rf are the
\* fields before and after it)
ParseIPv6Text(s) ==
    LET ok(f) == /\ Len(f) \in 1..4
                 /\ \A i \in DOMAIN f : \E d \in DOMAIN HexDigits : HexDigits[d] = f[i]
        fields(lf, rf) == lf \o [k \in 1..(8 - Len(lf) - Len(rf)) |-> <<"0">>] \o rf
        bytes(fs) == [k \in 1..16 |->
                        IF k % 2 = 1
                        THEN Hexadecimal(fs[(k + 1) \div 2]) \div 256
                        ELSE Hexadecimal(fs[k \div 2]) % 256]
        join(e, lf, rf) ==
            IF /\ \A k \in DOMAIN lf : ok(lf[k])
               /\ \A k \in DOMAIN rf : ok(rf[k])
               /\ IF e = 0 THEN Len(lf) = 8 ELSE Len(lf) + Len(rf) <= 7
            THEN [err |-> Nil, ip |-> bytes(fields(lf, rf))]
            ELSE [err |-> ErrInvalidCIDR, ip |-> <<>>]
        split(e) ==
            join(e,
                 IF e = 0 THEN Split(s, ":")
                 ELSE IF e = 1 THEN <<>>
                 ELSE Split(SubSeq(s, 1, e - 1), ":"),
                 IF e = 0 \/ e + 2 > Len(s) THEN <<>>
                 ELSE Split(SubSeq(s, e + 2, Len(s)), ":"))
    IN split(IF \E i \in 1..(Len(s) - 1) : s[i] = ":" /\ s[i + 1] = ":"
             THEN CHOOSE i \in 1..(Len(s) - 1) :
                     /\ s[i] = ":" /\ s[i + 1] = ":"
                     /\ \A j \in 1..(i - 1) : ~(s[j] = ":" /\ s[j + 1] = ":")
             ELSE 0)

\* net.ParseCIDR of a text: address, "/", prefix length in decimal
ParseCIDRText(s) ==
    LET cidr(c, ip) ==
            IF /\ c.found
               /\ ip.err = Nil
               /\ Len(c.after) \in 1..3
               /\ \A i \in DOMAIN c.after : IsDigit(c.after[i])
            THEN ParseCIDR(CIDR(ip.ip, Decimal(c.after)))
            ELSE [err |-> ErrInvalidCIDR, ip |-> <<>>, ipnet |-> NoIPNet]
        address(c) ==
            cidr(c, IF \E i \in DOMAIN c.before : c.before[i] = "."
                    THEN ParseIPv4Text(c.before)
                    ELSE ParseIPv6Text(c.before))
    IN address(Cut(s, "/"))

\* isValidCIDR(s, ipVersion)
isValidCIDR(s, ipVersion) ==
    \E r \in {ParseCIDRText(s)} :
        r.err = Nil /\ (IsIPv4(r.ip) <=> ipVersion = 4)

\* getIndex: the number after the leading "R"s of a node name, 0 when
\* what follows is not a number
getIndex(nodeName) == Atoi(TrimLeft(nodeName, "R")).num

\* calcLoopback
calcLoopback(name, ipVersion) ==
    IF ipVersion = 4
    THEN <<"1", "9", "2", ".", "1", "6", "8", ".", "0", ".">>
         \o Itoa(getIndex(name)) \o <<"/", "3", "2">>
    ELSE <<"2", "0", "0", "1", ":", "d", "b", "8", ":", ":">>
         \o Itoa(getIndex(name)) \o <<"/", "1", "2", "8">>

\* calcSubnet: a subnet named after the indexes of the two endpoints, or
\* after the index of the last one when there are more than two
calcSubnet(endpoints, ipVersion) ==
    LET many == Len(endpoints) > 2
        a == IF many THEN 0 ELSE getIndex(endpoints[1])
        b == getIndex(endpoints[IF many THEN Len(endpoints) ELSE 2])
    IN IF ipVersion = 4
       THEN <<"1", "0", ".">> \o Itoa(a) \o <<".">> \o Itoa(b)
            \o <<".", "0", "/", "2", "4">>
       ELSE <<"2", "0", "0", "1", ":", "d", "b", "8", ":">> \o Itoa(a)
            \o <<":">> \o Itoa(b) \o <<":", ":", "/", "6", "4">>

\* calcHost: the decimal index written after the network's text, which in
\* a dotted quad has lost a final "0" (strings.CutSuffix)
calcHost(subnet, index) ==
    LET c == Cut(subnet, "/")
        net == c.before
        dotted == \E i \in DOMAIN subnet : subnet[i] = "."
    IN (IF dotted /\ Len(net) > 0 /\ net[Len(net)] = "0"
        THEN SubSeq(net, 1, Len(net) - 1)
        ELSE net)
       \o Itoa(index) \o <<"/">> \o c.after

\* An error made by fmt.Errorf is its format and what it is formatted with.
Errorf(format, arg) == [format |-> format, arg |-> arg]

NoError == Errorf(Nil, <<>>)

\* a node of the validated intent: a nil pointer, or its image, loopbacks,
\* protocol map and ASN pointer (a negative ASN stands for a nil pointer)
ImageNode(image, protocols) ==
    [isNil |-> FALSE, Image |-> image, IPv4Loopbacks |-> <<>>,
     IPv6Loopbacks |-> <<>>, Protocols |-> protocols, ASN |-> 0 - 1]

ValidatedIntent(name, mode, nodes, order, links) ==
    [corrupt |-> FALSE, Name |-> name, ConfigMode |-> mode, nodes |-> nodes,
     mapOrder |-> order, links |-> links]

\* parseYAML of a well-formed document
parseYAML(data) ==
    [Name |-> data.Name, ConfigMode |-> data.ConfigMode,
     Nodes |-> [k \in DOMAIN data.nodes |->
                  [isNil |-> data.nodes[k].isNil, Name |-> <<>>,
                   Image |-> data.nodes[k].Image, Vendor |-> "unknown",
                   IPv4Loopbacks |-> data.nodes[k].IPv4Loopbacks,
                   IPv6Loopbacks |-> data.nodes[k].IPv6Loopbacks,
                   Protocols |-> data.nodes[k].Protocols,
                   ASN |-> data.nodes[k].ASN,
                   Sysctls |-> {}, Interfaces |-> <<>>]],
     Links |-> [i \in 1..Len(data.links) |->
                  [Name |-> "", Endpoints |-> data.links[i].Endpoints,
                   IPv4Subnet |-> data.links[i].IPv4Subnet,
                   IPv6Subnet |-> data.links[i].IPv6Subnet,
                   IPv4Gateway |-> <<>>, IPv6Gateway |-> <<>>]]]

\* (*Node).validate; the intents enable at most one unsupported protocol
Node_validate(node, name) ==
    LET bad(list, ipVersion) ==
            { i \in DOMAIN list : ~isValidCIDR(list[i], ipVersion) }
        first(S) == CHOOSE i \in S : \A j \in S : i <= j
        check(bad4, bad6) ==
            IF node.isNil
            THEN Errorf("node %q does not have an image specified", name)
            ELSE IF ~isValidNodeName(name)
            THEN Errorf("node name %q is not in the [R1-R253] range", name)
            ELSE IF node.Image = ""
            THEN Errorf("node %q does not have an image specified", name)
            ELSE IF bad4 # {}
            THEN Errorf("%q is not a valid IPv4 address",
                        node.IPv4Loopbacks[first(bad4)])
            ELSE IF bad6 # {}
            THEN Errorf("%q is not a valid IPv6 address",
                        node.IPv6Loopbacks[first(bad6)])
            ELSE IF \E p \in DOMAIN node.Protocols : p \notin SupportedProtocols
            THEN Errorf("node %q has unsupported protocol %q",
                        <<name, CHOOSE p \in DOMAIN node.Protocols :
                                   p \notin SupportedProtocols>>)
            ELSE IF node.ASN = 0
            THEN Errorf("node %q has unvalid ASN %d", <<name, node.ASN>>)
            ELSE NoError
    IN check(bad(node.IPv4Loopbacks, 4), bad(node.IPv6Loopbacks, 6))

\* (*Link).validate
Link_validate(link, nodes) ==
    LET first(S) == CHOOSE i \in S : \A j \in S : i <= j
        check(unknown, v4, v6) ==
            IF Len(link.Endpoints) < 2
            THEN Errorf("link has fewer than two endpoints %v", link.Endpoints)
            ELSE IF unknown # {}
            THEN Errorf("unknown node %q in endpoints %v",
                        <<link.Endpoints[first(unknown)], link.Endpoints>>)
            ELSE IF link.IPv4Subnet # <<>> /\ ~v4
            THEN Errorf("%q is not a valid IPv4 subnet", link.IPv4Subnet)
            ELSE IF link.IPv6Subnet # <<>> /\ ~v6
            THEN Errorf("%q is not a valid IPv6 subnet", link.IPv6Subnet)
            ELSE NoError
    IN check({ i \in DOMAIN link.Endpoints : link.Endpoints[i] \notin nodes },
             isValidCIDR(link.IPv4Subnet, 4), isValidCIDR(link.IPv6Subnet, 6))

\* (*Topology).validate: the node map is ranged over in the runtime's
\* order, and the first error met is returned
Topology_validate(t, order) ==
    LET first(S) == CHOOSE i \in S : \A j \in S : i <= j
        bad(errs) == { k \in DOMAIN errs : errs[k] # NoError }
        check(nodeErr, linkErr) ==
            IF t.Name = ""
            THEN Errorf("topology does not have a name", <<>>)
            ELSE IF t.ConfigMode \notin {"", "manual", "auto"}
            THEN Errorf("topology %q has invalid config mode %q",
                        <<t.Name, t.ConfigMode>>)
            ELSE IF DOMAIN t.Nodes = {}
            THEN Errorf("topology %q has no nodes", t.Name)
            ELSE IF bad(nodeErr) # {} THEN nodeErr[first(bad(nodeErr))]
            ELSE IF bad(linkErr) # {} THEN linkErr[first(bad(linkErr))]
            ELSE NoError
    IN check([k \in DOMAIN order |->
                Node_validate(t.Nodes[order[k]], order[k])],
             [i \in DOMAIN t.Links |->
                Link_validate(t.Links[i], DOMAIN t.Nodes)])

\* whether the node runs LDP on FRR
RunsMPLS(node) ==
    /\ node.Vendor = "frr"
    /\ "ldp" \in DOMAIN node.Protocols
    /\ node.Protocols["ldp"]

\* (*Node).populate
Node_populate(node, name) ==
    [node EXCEPT
       !.Name = name,
       !.Vendor = DetectByImage(node.Image),
       !.IPv4Loopbacks = IF Len(@) = 0 THEN << calcLoopback(name, 4) >> ELSE @,
       !.IPv6Loopbacks = IF Len(@) = 0 THEN << calcLoopback(name, 6) >> ELSE @,
       !.Sysctls =
           IF RunsMPLS([node EXCEPT !.Vendor = DetectByImage(node.Image)])
           THEN { <<"net.mpls.platform_labels", ToString(mplsLabels)>>,
                  <<"net.mpls.conf.lo.input", "1">> }
           ELSE @]

\* the loop of (*Link).populate over the endpoints of link, from k on
RECURSIVE interfacesFrom(_, _, _)
interfacesFrom(nodes, link, k) ==
    IF k > Len(link.Endpoints) THEN nodes
    ELSE LET ep == link.Endpoints[k]
             iface == [Name |-> "eth" \o ToString(Len(nodes[ep].Interfaces)),
                       Link |-> link.Name,
                       IPv4Addr |-> calcHost(link.IPv4Subnet, getIndex(ep)),
                       IPv6Addr |-> calcHost(link.IPv6Subnet, getIndex(ep)),
                       DriverOpts |-> IF RunsMPLS(nodes[ep])
                                      THEN MPLSDriverOpts ELSE {}]
         IN interfacesFrom([nodes EXCEPT ![ep].Interfaces = Append(@, iface)],
                           link, k + 1)

\* (*Link).populate of link i (counted from 0 in the source)
Link_populate(t, i) ==
    LET l == t.Links[i]
        named == [l EXCEPT
                    !.Name = autoLinkNamePrefix \o ToString(i),
                    !.IPv4Subnet =
                        IF @ = <<>> THEN calcSubnet(l.Endpoints, 4) ELSE @,
                    !.IPv6Subnet =
                        IF @ = <<>> THEN calcSubnet(l.Endpoints, 6) ELSE @]
    IN [t EXCEPT
          !.Nodes = interfacesFrom(@, named, 1),
          !.Links[i] =
              [named EXCEPT
                 !.IPv4Gateway = Cut(calcHost(named.IPv4Subnet, 254), "/").before,
                 !.IPv6Gateway = Cut(calcHost(named.IPv6Subnet, 254), "/").before]]

\* (*Topology).populate: the nodes in the runtime's order, then the links
Topology_populate(t, order) ==
    LET RECURSIVE nodesLoop(_, _)
        nodesLoop(k, tn) ==
            IF k > Len(order) THEN tn
            ELSE nodesLoop(k + 1,
                     [tn EXCEPT !.Nodes[order[k]] = Node_populate(@, order[k])])
        RECURSIVE linksLoop(_, _)
        linksLoop(i, tl) ==
            IF i > Len(tl.Links) THEN tl
            ELSE linksLoop(i + 1, Link_populate(tl, i))
    IN linksLoop(1, nodesLoop(1, t))

\* FromYAML: deserialize, validate, populate
ValidatedFromYAML(data) ==
    LET validated(t, err) ==
            IF err # NoError THEN [err |-> err, topo |-> NoTopo]
            ELSE [err |-> NoError, topo |-> Topology_populate(t, data.mapOrder)]
        parsed(t) == validated(t, Topology_validate(t, data.mapOrder))
    IN IF data.corrupt
       THEN [err |-> Errorf(ErrCorruptYAML, <<>>), topo |-> NoTopo]
       ELSE parsed(parseYAML(data))

\* ------------------------------ intents handed to the validated pipeline
R(n) == <<"R">> \o Itoa(n)

\* intents that vary the endpoints and the subnets of the first link, which
\* declares none or 100.64.0.0/29 and 2001:db8:1::/64.  The n + 2 nodes
\* have keys the validation accepts (R+1 and R02 spell 1 and 2 again) and
\* R1 runs LDP; link 2 joins R2, R1 and R3, a later link R1 and R2.
LinkedIntents(n, l) ==
    LET EndpointKeys == << R(1), R(2), R(3), R(10), <<"R", "+", "1">>,
                           <<"R", "0", "2">>, R(253) >>
        order == SubSeq(EndpointKeys, 1, n + 2)
        nodes == [k \in Range(order) |->
                    ImageNode(FRRImage, IF k = R(1)
                                        THEN [p \in {"ldp"} |-> TRUE]
                                        ELSE <<>>)]
        DeclaredV4 == <<"1", "0", "0", ".", "6", "4", ".", "0", ".", "0",
                        "/", "2", "9">>
        DeclaredV6 == <<"2", "0", "0", "1", ":", "d", "b", "8", ":", "1",
                        ":", ":", "/", "6", "4">>
        Link(endpoints, v4, v6) ==
            [Endpoints |-> endpoints, IPv4Subnet |-> v4, IPv6Subnet |-> v6]
    IN { ValidatedIntent("lab", "", nodes, order,
                         [i \in 1..c |->
                            IF i = 1 THEN Link(eps, sn[1], sn[2])
                            ELSE IF i = 2
                            THEN Link(<< R(2), R(1), R(3) >>, <<>>, <<>>)
                            ELSE Link(<< R(1), R(2) >>, <<>>, <<>>)]) :
           eps \in UNION { [1..m -> Range(order)] : m \in 1..n },
           sn \in { <<<<>>, <<>>>>, <<DeclaredV4, DeclaredV6>> },
           c \in 1..l }

\* intents that vary the node map and the order it is ranged over in: up
\* to m of m + 2 keys, some of which the validation rejects, each with a
\* node that is valid, has no image, is nil or enables an unsupported
\* protocol
KeyedIntents(m) ==
    LET MixedKeys == << R(1), <<"X", "1">>, R(254), R(2), R(3), R(0) >>
        NilNode == [isNil |-> TRUE, Image |-> "", IPv4Loopbacks |-> <<>>,
                    IPv6Loopbacks |-> <<>>, Protocols |-> <<>>, ASN |-> 0 - 1]
        NodeChoices4 == { ImageNode(FRRImage, <<>>), ImageNode("", <<>>),
                          NilNode,
                          ImageNode(OtherImage, [p \in {"rip"} |-> TRUE]) }
    IN { [corrupt |-> TRUE, Name |-> "", ConfigMode |-> "", nodes |-> <<>>,
          mapOrder |-> <<>>, links |-> <<>>] }
       \cup
       UNION { { ValidatedIntent(nm[1], nm[2], f, o, <<>>) :
                   f \in [keys -> NodeChoices4],
                   o \in Orders(keys),
                   nm \in { <<"lab", "auto">>, <<"", "">>, <<"lab", "bogus">> } } :
               keys \in { ks \in SUBSET Range(SubSeq(MixedKeys, 1, m + 2)) :
                            Cardinality(ks) <= m } }

\* --------------------------------------------------------------- configen
\* GenerateAndDump makes one directory per node under the root directory,
\* renders the vendor's configuration files into it and registers the
\* directory as a bind mount of the node.  A bind is the pair of its host
\* path and its container path; a node's directory is named by the node.
\* vendors.ExtraBinds
ExtraBinds(vendor) ==
    IF vendor = "frr" THEN << <<"/lib/modules", "/lib/modules">> >> ELSE <<>>

\* vendors.ConfigFiles, every path as filepath.Split gives it
ConfigFiles(vendor) ==
    IF vendor = "frr"
    THEN << <<"/etc/frr/", "daemons">>, <<"/etc/frr/", "vtysh.conf">>,
            <<"/etc/frr/", "frr.conf">> >>
    ELSE <<>>

\* (*ConfigenProvider).GenerateAndDump on the directories ds: the loop over
\* the node map in the runtime's order, from position k on; the file
\* system fails step f (Mkdir, ReadFile or Create) at node at
GenerateAndDump(t, order, ds, f, at) ==
    LET RECURSIVE loop(_, _, _)
        loop(k, tk, dk) ==
            IF k > Len(order) THEN [err |-> Nil, topo |-> tk, dirs |-> dk]
            ELSE LET name == order[k]
                     node == tk.Nodes[name]
                     files == ConfigFiles(node.Vendor)
                     remoteDir == IF Len(files) = 0 THEN ""
                                  ELSE files[Len(files)][1]
                 IN IF node.Name \in dk
                    THEN loop(k + 1, tk, dk)
                    ELSE IF at = name /\ f = "Mkdir"
                    THEN [err |-> f, topo |-> tk, dirs |-> dk]
                    ELSE IF /\ at = name
                            /\ f \in {"ReadFile", "Create"}
                            /\ Len(files) > 0
                    THEN [err |-> f, topo |-> tk, dirs |-> dk \cup {node.Name}]
                    ELSE loop(k + 1,
                              [tk EXCEPT !.Nodes[name].Binds =
                                  Append(@, <<node.Name, remoteDir>>)],
                              dk \cup {node.Name})
    IN loop(1, t, ds)

\* (*ConfigenProvider).Cleanup on the directories ds; the file system fails
\* step f (Stat or RemoveAll) at node at
Cleanup(t, order, ds, f, at) ==
    LET RECURSIVE loop(_, _)
        loop(k, dk) ==
            IF k > Len(order) THEN [err |-> Nil, topo |-> t, dirs |-> dk]
            ELSE LET name == order[k]
                     node == t.Nodes[name]
                 IN IF at = name /\ f = "Stat"
                    THEN [err |-> f, topo |-> t, dirs |-> dk]
                    ELSE IF node.Name \notin dk
                    THEN loop(k + 1, dk)
                    ELSE IF at = name /\ f = "RemoveAll"
                    THEN [err |-> f, topo |-> t, dirs |-> dk]
                    ELSE loop(k + 1, dk \ {node.Name})
    IN loop(1, ds)

\* the compiled topologies a command hands to the configuration provider
ConfigenTopologies(m) ==
    UNION { { [Nodes |-> [k \in DOMAIN v |->
                            [Name |-> k, Vendor |-> v[k],
                             Binds |-> ExtraBinds(v[k])]]] :
                v \in [{NodeName(i) : i \in 1..n} -> {"unknown", "frr", "arista"}] } :
            n \in 0..m }

\* ------------------------------------------------- the Docker API client
\* The client keeps networks and containers by name; each method has an
\* error field the caller may arm.  fault names the armed method.
Faults == {"none", "NetworkList", "NetworkCreate", "NetworkRemove",
           "ContainerList", "ContainerCreate", "ContainerStart",
           "ContainerRemove"}

InjectedErr(f) == "err" \o f

InjectedErrs == { InjectedErr(f) : f \in Faults \ {"none"} }

ErrAlreadyExists == "already exists"
ErrDoesNotExist == "does not exist"

EmptyClient == [Networks |-> {}, Containers |-> {}, Started |-> {}]

NetworkList(c, f) ==
    IF f = "NetworkList" THEN [err |-> InjectedErr(f), names |-> {}]
    ELSE [err |-> Nil, names |-> c.Networks]

NetworkCreate(c, name, f) ==
    IF f = "NetworkCreate" THEN [c |-> c, err |-> InjectedErr(f)]
    ELSE IF name \in c.Networks THEN [c |-> c, err |-> ErrAlreadyExists]
    ELSE [c |-> [c EXCEPT !.Networks = @ \cup {name}], err |-> Nil]

NetworkRemove(c, name, f) ==
    IF f = "NetworkRemove" THEN [c |-> c, err |-> InjectedErr(f)]
    ELSE IF name \notin c.Networks THEN [c |-> c, err |-> ErrDoesNotExist]
    ELSE [c |-> [c EXCEPT !.Networks = @ \ {name}], err |-> Nil]

ContainerList(c, f) ==
    IF f = "ContainerList" THEN [err |-> InjectedErr(f), names |-> {}]
    ELSE [err |-> Nil, names |-> c.Containers]

ContainerCreate(c, name, f) ==
    IF f = "ContainerCreate" THEN [c |-> c, err |-> InjectedErr(f)]
    ELSE IF name \in c.Containers THEN [c |-> c, err |-> ErrAlreadyExists]
    ELSE [c |-> [c EXCEPT !.Containers = @ \cup {name}], err |-> Nil]

ContainerStart(c, name, f) ==
    IF f = "ContainerStart" THEN [c |-> c, err |-> InjectedErr(f)]
    ELSE IF name \notin c.Containers THEN [c |-> c, err |-> ErrDoesNotExist]
    ELSE [c |-> [c EXCEPT !.Started = @ \cup {name}], err |-> Nil]

ContainerRemove(c, name, f) ==
    IF f = "ContainerRemove" THEN [c |-> c, err |-> InjectedErr(f)]
    ELSE IF name \notin c.Containers THEN [c |-> c, err |-> ErrDoesNotExist]
    ELSE [c |-> [c EXCEPT !.Containers = @ \ {name},
                          !.Started = @ \ {name}], err |-> Nil]

\* ------------------------------------------------------- DockerProvider
\* Every provider method returns the client state it leaves, its error and
\* the API calls it made, in order.
LinkExists(c, link, f) ==
    [err |-> NetworkList(c, f).err,
     exists |-> NetworkList(c, f).err = Nil
                /\ link.Name \in NetworkList(c, f).names]

LinkCreateNoCheck(c, link, f) ==
    [c |-> NetworkCreate(c, link.Name, f).c,
     err |-> NetworkCreate(c, link.Name, f).err,
     api |-> <<"NetworkCreate">>]

LinkCreate(c, link, f) ==
    IF LinkExists(c, link, f).err # Nil
    THEN [c |-> c, err |-> LinkExists(c, link, f).err, api |-> <<"NetworkList">>]
    ELSE IF LinkExists(c, link, f).exists
    THEN [c |-> c, err |-> Nil, api |-> <<"NetworkList">>]
    ELSE [c |-> NetworkCreate(c, link.Name, f).c,
          err |-> NetworkCreate(c, link.Name, f).err,
          api |-> <<"NetworkList", "NetworkCreate">>]

LinkRemoveNoCheck(c, link, f) ==
    [c |-> NetworkRemove(c, link.Name, f).c,
     err |-> NetworkRemove(c, link.Name, f).err,
     api |-> <<"NetworkRemove">>]

LinkRemove(c, link, f) ==
    IF LinkExists(c, link, f).err # Nil
    THEN [c |-> c, err |-> LinkExists(c, link, f).err, api |-> <<"NetworkList">>]
    ELSE IF ~LinkExists(c, link, f).exists
    THEN [c |-> c, err |-> Nil, api |-> <<"NetworkList">>]
    ELSE [c |-> NetworkRemove(c, link.Name, f).c,
          err |-> NetworkRemove(c, link.Name, f).err,
          api |-> <<"NetworkList", "NetworkRemove">>]

NodeExists(c, node, f) ==
    [err |-> ContainerList(c, f).err,
     exists |-> ContainerList(c, f).err = Nil
                /\ node.Name \in ContainerList(c, f).names]

\* ContainerCreate followed by ContainerStart
createAndStart(c, node, f) ==
    IF ContainerCreate(c, node.Name, f).err # Nil
    THEN [c |-> ContainerCreate(c, node.Name, f).c,
          err |-> ContainerCreate(c, node.Name, f).err,
          api |-> <<"ContainerCreate">>]
    ELSE [c |-> ContainerStart(ContainerCreate(c, node.Name, f).c, node.Name, f).c,
          err |-> ContainerStart(ContainerCreate(c, node.Name, f).c, node.Name, f).err,
          api |-> <<"ContainerCreate", "ContainerStart">>]

NodeCreateNoCheck(c, node, f) == createAndStart(c, node, f)

NodeCreate(c, node, f) ==
    IF NodeExists(c, node, f).err # Nil
    THEN [c |-> c, err |-> NodeExists(c, node, f).err, api |-> <<"ContainerList">>]
    ELSE IF NodeExists(c, node, f).exists
    THEN [c |-> c, err |-> Nil, api |-> <<"ContainerList">>]
    ELSE [c |-> createAndStart(c, node, f).c,
          err |-> createAndStart(c, node, f).err,
          api |-> <<"ContainerList">> \o createAndStart(c, node, f).api]

NodeRemove(c, node, f) ==
    IF NodeExists(c, node, f).err # Nil
    THEN [c |-> c, err |-> NodeExists(c, node, f).err, api |-> <<"ContainerList">>]
    ELSE IF ~NodeExists(c, node, f).exists
    THEN [c |-> c, err |-> NodeExists(c, node, f).err, api |-> <<"ContainerList">>]
    ELSE [c |-> ContainerRemove(c, node.Name, f).c,
          err |-> ContainerRemove(c, node.Name, f).err,
          api |-> <<"ContainerList", "ContainerRemove">>]

\* ------------------------------------------------------------ the state
VARIABLES
    data,      \* the YAML intent every command is given
    dc,        \* the Docker client: networks, containers, started containers
    fault,     \* the client error field armed while Wreck last ran
    ctxDone,   \* the context of the running command has been cancelled
    cmd,       \* the command in progress: "none", "Build"
    topo,      \* the topology the running command compiled
    phase,     \* position in BuildOrder of the running Build
    li,        \* links the running Build has iterated over
    todo,      \* nodes the running Build has not yet iterated over
    calls,     \* provider calls of the running (or last finished) command
    last,      \* the last finished command and the error it returned
    prev,      \* the command finished before last
    changed,   \* the running (or last finished) command changed the client
    lastCall,  \* the last provider call made directly on the provider
    key,       \* the node key handed to isValidNodeName
    valid,     \* whether isValidNodeName has answered, and its answer
    dirs       \* the node directories that exist under the root directory

vars == <<data, dc, fault, ctxDone, cmd, topo, phase, li, todo, calls,
          last, prev, changed, lastCall, key, valid, dirs>>

NoRun == [cmd |-> "none", err |-> Nil]
NoCall == [op |-> "none", arg |-> "", fault |-> "none", err |-> Nil,
           api |-> <<>>, pre |-> EmptyClient]
NoVerdict == [done |-> FALSE, ok |-> FALSE]

Init ==
    /\ data \in Intents
    /\ dc = EmptyClient
    /\ fault = "none"
    /\ ctxDone = FALSE
    /\ cmd = "none"
    /\ topo = NoTopo
    /\ phase = 0
    /\ li = 0
    /\ todo = {}
    /\ calls = <<>>
    /\ last = NoRun
    /\ prev = NoRun
    /\ changed = FALSE
    /\ lastCall = NoCall
    /\ key = <<>>
    /\ valid = NoVerdict
    /\ dirs = {}

\* --------------------------------------------------------------- golab.go
\* Build runs its loops in this order.
BuildOrderNodesFirst == <<"nodes", "links">>

BuildOrder == <<"links", "nodes">>

\* `if err != nil { return err }` after a provider call
BuildAbortNever(err) == FALSE

BuildAbort(err) == err # Nil

\* the error Build hands back when a provider call failed
BuildErr(err) == err

\* Wreck's body: the error it returns
WreckErr(d) == Nil

HasWork(t, p, l, td) ==
    IF BuildOrder[p] = "links" THEN l < Len(t.Links) ELSE td # {}

\* the first loop at or after p that still has an element to visit
RECURSIVE NextPhase(_, _, _, _)
NextPhase(t, p, l, td) ==
    IF p > Len(BuildOrder) THEN p
    ELSE IF HasWork(t, p, l, td) THEN p
    ELSE NextPhase(t, p + 1, l, td)

Return(c, e) ==
    /\ cmd' = "none"
    /\ phase' = 0
    /\ prev' = last
    /\ last' = [cmd |-> c, err |-> e]

Continue(t, l, td) ==
    IF NextPhase(t, phase, l, td) > Len(BuildOrder)
    THEN Return("Build", Nil) /\ li' = l /\ todo' = td
    ELSE /\ cmd' = "Build"
         /\ phase' = NextPhase(t, phase, l, td)
         /\ li' = l
         /\ todo' = td
         /\ UNCHANGED <<last, prev>>

CallRec(op, arg, r) ==
    [op |-> op, arg |-> arg, err |-> r.err]

\* Build is entered: the intent is compiled
BuildStart ==
    /\ cmd = "none"
    /\ calls' = <<>>
    /\ changed' = FALSE
    /\ fault' = "none"
    /\ UNCHANGED <<data, dc, lastCall, key, valid, dirs>>
    /\ \E r \in {FromYAML(data)} :
          /\ \E c \in BOOLEAN : ctxDone' = c
          /\ IF r.err # Nil
             THEN /\ Return("Build", r.err)
                  /\ UNCHANGED <<topo, li, todo>>
             ELSE /\ topo' = r.topo
                  /\ IF NextPhase(r.topo, 1, 0, DOMAIN r.topo.Nodes)
                           > Len(BuildOrder)
                     THEN Return("Build", Nil) /\ UNCHANGED <<li, todo>>
                     ELSE /\ cmd' = "Build"
                          /\ phase' = NextPhase(r.topo, 1, 0,
                                                DOMAIN r.topo.Nodes)
                          /\ li' = 0
                          /\ todo' = DOMAIN r.topo.Nodes
                          /\ UNCHANGED <<last, prev>>

\* one iteration of `for _, link := range topo.Links`
BuildLinkCreate ==
    /\ cmd = "Build"
    /\ BuildOrder[phase] = "links"
    /\ \E f \in {"none", "NetworkList", "NetworkCreate"} :
         LET link == topo.Links[li + 1]
             r == LinkCreate(dc, link, f)
         IN /\ fault' = "none"
            /\ dc' = r.c
            /\ changed' = (changed \/ r.c # dc)
            /\ calls' = Append(calls, CallRec("LinkCreate", link.Name, r))
            /\ IF BuildAbort(r.err)
               THEN Return("Build", BuildErr(r.err)) /\ UNCHANGED <<li, todo>>
               ELSE Continue(topo, li + 1, todo)
    /\ UNCHANGED <<data, ctxDone, topo, lastCall, key, valid, dirs>>

\* one iteration of `for _, node := range topo.Nodes` (a map: any order)
BuildNodeCreate ==
    /\ cmd = "Build"
    /\ BuildOrder[phase] = "nodes"
    /\ \E name \in todo :
       \E f \in {"none", "ContainerList", "ContainerCreate", "ContainerStart"} :
         LET r == NodeCreate(dc, topo.Nodes[name], f)
         IN /\ fault' = "none"
            /\ dc' = r.c
            /\ changed' = (changed \/ r.c # dc)
            /\ calls' = Append(calls, CallRec("NodeCreate", name, r))
            /\ IF BuildAbort(r.err)
               THEN Return("Build", BuildErr(r.err)) /\ UNCHANGED <<li, todo>>
               ELSE Continue(topo, li, todo \ {name})
    /\ UNCHANGED <<data, ctxDone, topo, lastCall, key, valid, dirs>>

\* Wreck runs from entry to return
Wreck ==
    /\ cmd = "none"
    /\ \E c \in BOOLEAN : ctxDone' = c
    /\ \E f \in {"none", "NetworkList", "ContainerList"} : fault' = f
    /\ calls' = <<>>
    /\ changed' = FALSE
    /\ Return("Wreck", WreckErr(data))
    /\ UNCHANGED <<data, dc, topo, li, todo, lastCall, key, valid, dirs>>

\* the caller cancels the context of the running command
Cancel ==
    /\ cmd # "none"
    /\ ~ctxDone
    /\ ctxDone' = TRUE
    /\ UNCHANGED <<data, dc, fault, cmd, topo, phase, li, todo, calls,
                   last, prev, changed, lastCall, key, valid, dirs>>

Next == BuildStart \/ BuildLinkCreate \/ BuildNodeCreate \/ Wreck \/ Cancel

Spec == Init /\ [][Next]_vars

\* ------------------------------------- the provider called on its own
\* The provider's methods called one at a time on the links and nodes of
\* the compiled intent, in any order, with any client error field armed.
ProviderCall(op, arg, f, r) ==
    /\ dc' = r.c
    /\ lastCall' = [op |-> op, arg |-> arg, fault |-> f, err |-> r.err,
                    api |-> r.api, pre |-> dc]
    /\ UNCHANGED <<data, fault, ctxDone, cmd, topo, phase, li, todo, calls,
                   last, prev, changed, key, valid, dirs>>

Compiled == FromYAML(data).topo

\* the provider is handed the links and nodes of the compiled intent
ProviderInit ==
    /\ data \in Intents
    /\ dc = EmptyClient
    /\ fault = "none"
    /\ ctxDone = FALSE
    /\ cmd = "none"
    /\ topo = Compiled
    /\ phase = 0
    /\ li = 0
    /\ todo = {}
    /\ calls = <<>>
    /\ last = NoRun
    /\ prev = NoRun
    /\ changed = FALSE
    /\ lastCall = NoCall
    /\ key = <<>>
    /\ valid = NoVerdict
    /\ dirs = {}

NetworkFaults == {"none", "NetworkList", "NetworkCreate", "NetworkRemove"}

ContainerFaults == {"none", "ContainerList", "ContainerCreate",
                    "ContainerStart", "ContainerRemove"}

CallLinkCreate ==
    \E i \in DOMAIN topo.Links : \E f \in NetworkFaults :
        ProviderCall("LinkCreate", topo.Links[i].Name, f,
                     LinkCreate(dc, topo.Links[i], f))

CallLinkRemove ==
    \E i \in DOMAIN topo.Links : \E f \in NetworkFaults :
        ProviderCall("LinkRemove", topo.Links[i].Name, f,
                     LinkRemove(dc, topo.Links[i], f))

CallNodeCreate ==
    \E n \in DOMAIN topo.Nodes : \E f \in ContainerFaults :
        ProviderCall("NodeCreate", n, f, NodeCreate(dc, topo.Nodes[n], f))

CallNodeRemove ==
    \E n \in DOMAIN topo.Nodes : \E f \in ContainerFaults :
        ProviderCall("NodeRemove", n, f, NodeRemove(dc, topo.Nodes[n], f))

ProviderNext ==
    CallLinkCreate \/ CallLinkRemove \/ CallNodeCreate \/ CallNodeRemove

ProviderSpec == ProviderInit /\ [][ProviderNext]_vars

\* ----------------------------------------------------- FromYAML on its own
CompileInit ==
    /\ data \in CompileIntents(MaxEndpoints)
    /\ dc = EmptyClient
    /\ fault = "none"
    /\ ctxDone = FALSE
    /\ cmd = "none"
    /\ topo = NoTopo
    /\ phase = 0
    /\ li = 0
    /\ todo = {}
    /\ calls = <<>>
    /\ last = NoRun
    /\ prev = NoRun
    /\ changed = FALSE
    /\ lastCall = NoCall
    /\ key = <<>>
    /\ valid = NoVerdict
    /\ dirs = {}

CallFromYAML ==
    /\ last = NoRun
    /\ topo' = FromYAML(data).topo
    /\ last' = [cmd |-> "FromYAML", err |-> FromYAML(data).err]
    /\ UNCHANGED <<data, dc, fault, ctxDone, cmd, phase, li, todo, calls,
                   prev, changed, lastCall, key, valid, dirs>>

CompileNext == CallFromYAML

CompileSpec == CompileInit /\ [][CompileNext]_vars

NodeCompileInit ==
    /\ data \in NodeIntents(MaxNodes)
    /\ dc = EmptyClient
    /\ fault = "none"
    /\ ctxDone = FALSE
    /\ cmd = "none"
    /\ topo = NoTopo
    /\ phase = 0
    /\ li = 0
    /\ todo = {}
    /\ calls = <<>>
    /\ last = NoRun
    /\ prev = NoRun
    /\ changed = FALSE
    /\ lastCall = NoCall
    /\ key = <<>>
    /\ valid = NoVerdict
    /\ dirs = {}

NodeCompileSpec == NodeCompileInit /\ [][CompileNext]_vars

\* ---------------------------------------------- isValidNodeName on its own
NameInit ==
    /\ data = CorruptIntent
    /\ dc = EmptyClient
    /\ fault = "none"
    /\ ctxDone = FALSE
    /\ cmd = "none"
    /\ topo = NoTopo
    /\ phase = 0
    /\ li = 0
    /\ todo = {}
    /\ calls = <<>>
    /\ last = NoRun
    /\ prev = NoRun
    /\ changed = FALSE
    /\ lastCall = NoCall
    /\ key \in NodeKeys(MaxKeyLen)
    /\ valid = NoVerdict
    /\ dirs = {}

CallIsValidNodeName ==
    /\ ~valid.done
    /\ valid' = [done |-> TRUE, ok |-> isValidNodeName(key)]
    /\ UNCHANGED <<data, dc, fault, ctxDone, cmd, topo, phase, li, todo, calls,
                   last, prev, changed, lastCall, key, dirs>>

NameNext == CallIsValidNodeName

NameSpec == NameInit /\ [][NameNext]_vars

\* -------------------------------------- the validated FromYAML on its own
ValidatedInit ==
    /\ data \in LinkedIntents(MaxEndpoints, MaxLinks) \cup KeyedIntents(MaxNodes)
    /\ dc = EmptyClient
    /\ fault = "none"
    /\ ctxDone = FALSE
    /\ cmd = "none"
    /\ topo = NoTopo
    /\ phase = 0
    /\ li = 0
    /\ todo = {}
    /\ calls = <<>>
    /\ last = [cmd |-> "none", err |-> NoError]
    /\ prev = NoRun
    /\ changed = FALSE
    /\ lastCall = NoCall
    /\ key = <<>>
    /\ valid = NoVerdict
    /\ dirs = {}

CallValidatedFromYAML ==
    /\ last = [cmd |-> "none", err |-> NoError]
    /\ \E r \in {ValidatedFromYAML(data)} :
          /\ topo' = r.topo
          /\ last' = [cmd |-> "FromYAML", err |-> r.err]
    /\ UNCHANGED <<data, dc, fault, ctxDone, cmd, phase, li, todo, calls,
                   prev, changed, lastCall, key, valid, dirs>>

ValidatedNext == CallValidatedFromYAML

ValidatedSpec == ValidatedInit /\ [][ValidatedNext]_vars

\* ------------------------------------- the configuration provider on its own
\* Every command compiles the intent anew, so every call is handed the
\* topology as compiled; the directories stay from one call to the next.
ConfigenInit ==
    /\ data \in ConfigenTopologies(MaxNodes)
    /\ dc = EmptyClient
    /\ fault = "none"
    /\ ctxDone = FALSE
    /\ cmd = "none"
    /\ topo = NoTopo
    /\ phase = 0
    /\ li = 0
    /\ todo = {}
    /\ calls = <<>>
    /\ last = NoRun
    /\ prev = NoRun
    /\ changed = FALSE
    /\ lastCall = NoCall
    /\ key = <<>>
    /\ valid = NoVerdict
    /\ dirs = {}

CallGenerateAndDump ==
    \E o \in Orders(DOMAIN data.Nodes), f \in {"none", "Mkdir", "ReadFile", "Create"},
       at \in DOMAIN data.Nodes \cup {""} :
        \E r \in {GenerateAndDump(data, o, dirs, f, at)} :
            /\ topo' = r.topo
            /\ dirs' = r.dirs
            /\ prev' = last
            /\ last' = [cmd |-> "GenerateAndDump", err |-> r.err]
            /\ UNCHANGED <<data, dc, fault, ctxDone, cmd, phase, li, todo,
                           calls, changed, lastCall, key, valid>>

CallCleanup ==
    \E o \in Orders(DOMAIN data.Nodes), f \in {"none", "Stat", "RemoveAll"},
       at \in DOMAIN data.Nodes \cup {""} :
        \E r \in {Cleanup(data, o, dirs, f, at)} :
            /\ topo' = r.topo
            /\ dirs' = r.dirs
            /\ prev' = last
            /\ last' = [cmd |-> "Cleanup", err |-> r.err]
            /\ UNCHANGED <<data, dc, fault, ctxDone, cmd, phase, li, todo,
                           calls, changed, lastCall, key, valid>>

ConfigenNext == CallGenerateAndDump \/ CallCleanup

ConfigenSpec == ConfigenInit /\ [][ConfigenNext]_vars

\* ============================================================== properties
Returned(c) == cmd = "none" /\ last.cmd = c

SuccessfulLinkCreatesBefore(i) ==
    { j \in 1..(i - 1) : calls[j].op = "LinkCreate" /\ calls[j].err = Nil }

LinkNames == { Compiled.Links[i].Name : i \in DOMAIN Compiled.Links }

\* C1: in a Build, every LinkCreate call precedes the first NodeCreate call,
\* and when NodeCreate is called every link of the topology has had a
\* successful LinkCreate.
C1_LinksBeforeNodes ==
    \A i \in 1..Len(calls) :
        calls[i].op = "NodeCreate" =>
            /\ \A j \in 1..Len(calls) : calls[j].op = "LinkCreate" => j < i
            /\ Cardinality(SuccessfulLinkCreatesBefore(i)) = Len(topo.Links)

C1_Witness ==
    /\ cmd = "Build"
    /\ Len(topo.Links) = 2
    /\ \E i \in 1..Len(calls) : calls[i].op = "NodeCreate"

\* C2: after a successful Build followed by a successful Wreck of the same
\* intent, the provider holds no link and no node.
C2_BuildThenWreckLeavesNothing ==
    (Returned("Wreck") /\ last.err = Nil
        /\ prev = [cmd |-> "Build", err |-> Nil])
    => (dc.Networks = {} /\ dc.Containers = {})

\* C3: when a LinkCreate or NodeCreate call fails during Build, it is the
\* last provider call of the run, Build returns that very error, and what
\* the earlier calls created is still there.
C3_BuildAbortsOnFirstError ==
    \A i \in 1..Len(calls) :
        calls[i].err # Nil =>
            /\ i = Len(calls)
            /\ Returned("Build")
            /\ last.err = calls[i].err
            /\ \A j \in 1..Len(calls) :
                 /\ calls[j].op \in {"LinkCreate", "NodeCreate"}
                 /\ (calls[j].op = "LinkCreate" /\ calls[j].err = Nil)
                      => calls[j].arg \in dc.Networks
                 /\ (calls[j].op = "NodeCreate" /\ calls[j].err = Nil)
                      => calls[j].arg \in dc.Containers

C3_Witness ==
    /\ Returned("Build")
    /\ Len(calls) = 3
    /\ calls[3].op = "NodeCreate"
    /\ calls[3].err = InjectedErr("ContainerCreate")
    /\ calls[1].arg \in dc.Networks
    /\ changed

\* C4: Wreck returns the compile error for an intent that cannot be
\* deserialized, and the provider's error when the removal of a node or of
\* a link fails.
C4_WreckReportsFailure ==
    Returned("Wreck") =>
        /\ data.corrupt => last.err = ErrCorruptYAML
        /\ (FromYAML(data).err = Nil /\ fault = "ContainerList")
              => last.err = InjectedErr("ContainerList")
        /\ (FromYAML(data).err = Nil /\ fault = "NetworkList"
              /\ Len(Compiled.Links) > 0)
              => last.err = InjectedErr("NetworkList")

C6_SecondBuildIsNoop ==
    (Returned("Build") /\ prev = [cmd |-> "Build", err |-> Nil]
        /\ last.err \notin InjectedErrs)
    => (last.err = Nil /\ ~changed)

C6_Witness ==
    /\ Returned("Build")
    /\ last.err = Nil
    /\ prev = [cmd |-> "Build", err |-> Nil]
    /\ Len(calls) = 4
    /\ dc.Networks # {}
    /\ dc.Containers = DOMAIN Compiled.Nodes

\* C7: a Build in which every call succeeds, run after a Build that aborted
\* on a failed container start, ends with every link created and every
\* node created and started.
C7_RepeatedBuildCompletes ==
    (Returned("Build") /\ last.err = Nil
        /\ prev = [cmd |-> "Build", err |-> InjectedErr("ContainerStart")])
    => /\ LinkNames \subseteq dc.Networks
       /\ DOMAIN Compiled.Nodes \subseteq dc.Containers
       /\ DOMAIN Compiled.Nodes \subseteq dc.Started

InApi(m) == \E k \in 1..Len(lastCall.api) : lastCall.api[k] = m

\* C8: LinkCreate on a link whose network exists returns nil, does not call
\* NetworkCreate and leaves the networks as they were; LinkRemove on a link
\* whose network is absent returns nil and does not call NetworkRemove
\* (both when listing the networks succeeds).
C8_LinkOpsIdempotent ==
    /\ (lastCall.op = "LinkCreate" /\ lastCall.arg \in lastCall.pre.Networks
          /\ lastCall.fault # "NetworkList")
       => (lastCall.err = Nil /\ ~InApi("NetworkCreate")
             /\ dc.Networks = lastCall.pre.Networks)
    /\ (lastCall.op = "LinkRemove" /\ lastCall.arg \notin lastCall.pre.Networks
          /\ lastCall.fault # "NetworkList")
       => (lastCall.err = Nil /\ ~InApi("NetworkRemove")
             /\ dc.Networks = lastCall.pre.Networks)

C8_Witness ==
    /\ lastCall.op = "LinkCreate"
    /\ lastCall.arg \in lastCall.pre.Networks
    /\ lastCall.fault = "NetworkCreate"
    /\ lastCall.err = Nil

\* C9: NodeCreate on a node whose container exists returns nil, calls
\* neither ContainerCreate nor ContainerStart and leaves the containers as
\* they were; NodeRemove on a node whose container is absent returns nil
\* and does not call ContainerRemove (both when listing the containers
\* succeeds).
C9_NodeOpsIdempotent ==
    /\ (lastCall.op = "NodeCreate" /\ lastCall.arg \in lastCall.pre.Containers
          /\ lastCall.fault # "ContainerList")
       => (lastCall.err = Nil /\ ~InApi("ContainerCreate")
             /\ ~InApi("ContainerStart")
             /\ dc.Containers = lastCall.pre.Containers
             /\ dc.Started = lastCall.pre.Started)
    /\ (lastCall.op = "NodeRemove" /\ lastCall.arg \notin lastCall.pre.Containers
          /\ lastCall.fault # "ContainerList")
       => (lastCall.err = Nil /\ ~InApi("ContainerRemove")
             /\ dc.Containers = lastCall.pre.Containers)

C9_Witness ==
    /\ lastCall.op = "NodeRemove"
    /\ lastCall.arg \notin lastCall.pre.Containers
    /\ lastCall.fault = "ContainerRemove"
    /\ lastCall.err = Nil
    /\ dc.Containers # {}

\* C10: once the context of a running Build or Wreck is cancelled no
\* provider call is started any more, and the command returns an error.
C10_CancelStopsProviderCalls ==
    /\ [][ctxDone => Len(calls') # Len(calls) + 1]_vars
    /\ []((cmd = "none" /\ last.cmd # "none" /\ ctxDone) => last.err # Nil)

\* C11: when compiling the intent fails, FromYAML hands out no topology
\* together with its error, and a Build of that intent returns that error
\* without having made a provider call or touched the backend.
C11_CompileFailureStopsBuild ==
    \A r \in {FromYAML(data)} :
       r.err # Nil =>
          /\ r.topo = NoTopo
          /\ cmd = "none"
          /\ dc = EmptyClient
          /\ Returned("Build") =>
                (last.err = r.err /\ calls = <<>> /\ ~changed)

C11_Witness ==
    /\ Returned("Build")
    /\ prev.cmd = "Build"
    /\ last.err = ErrSubnetExhausted

\* FromYAML has been called and has returned a topology
CompileSucceeded == last.cmd = "FromYAML" /\ last.err = Nil

\* the interfaces of all nodes of topology t
Interfaces(t) == UNION { Range(t.Nodes[n].Interfaces) : n \in DOMAIN t.Nodes }

\* the addresses an interface carries
Addresses(iface) == {iface.IPv4, iface.IPv6} \ {NoCIDR}

\* the last address of a subnet
Broadcast(sn) == AddressRange(sn).last

\* address a is written with the prefix length of subnet sn and lies above
\* its network address and below its broadcast address
StrictlyInside(a, sn) ==
    /\ sn.Ones = a.len
    /\ Len(sn.IP) = Len(a.ip)
    /\ IPLess(sn.IP, a.ip)
    /\ IPLess(a.ip, Broadcast(sn))

\* C12: in a compiled topology every address that link enrichment gave an
\* endpoint lies strictly inside a subnet of the endpoint's link: above the
\* network address and below the broadcast address.
C12_AddressesStrictlyInside ==
    CompileSucceeded =>
        \A iface \in Interfaces(topo) :
            iface.Link # "" =>
                \A a \in Addresses(iface) :
                    \E i \in DOMAIN topo.Links :
                        /\ topo.Links[i].Name = iface.Link
                        /\ \E k \in DOMAIN topo.Links[i].Subnets :
                              StrictlyInside(a, topo.Links[i].Subnets[k])

PoolLinks == { i \in DOMAIN data.links : data.links[i].RawSubnets.isNil }

\* two subnets share an address
Overlap(s1, s2) ==
    /\ Len(s1.IP) = Len(s2.IP)
    /\ \/ Mask(s2.IP, s1.Ones) = s1.IP
       \/ Mask(s1.IP, s2.Ones) = s2.IP

\* C14: in a compiled topology, two links that drew from the starting pool
\* one right after the other hold, family by family, subnets of the same
\* prefix length that do not overlap.
C14_ConsecutivePoolSubnetsDisjoint ==
    CompileSucceeded =>
        \A i, j \in PoolLinks :
            (i < j /\ ~\E m \in PoolLinks : i < m /\ m < j) =>
                /\ Len(topo.Links[i].Subnets) = Len(topo.Links[j].Subnets)
                /\ \A k \in DOMAIN topo.Links[i].Subnets :
                      /\ topo.Links[i].Subnets[k].Ones =
                             topo.Links[j].Subnets[k].Ones
                      /\ ~Overlap(topo.Links[i].Subnets[k],
                                  topo.Links[j].Subnets[k])

\* the interfaces of topology t, node by node and position by position, that
\* are attached to the link called name
AttachedTo(t, name) ==
    { nx \in UNION { {n} \X DOMAIN t.Nodes[n].Interfaces : n \in DOMAIN t.Nodes } :
        t.Nodes[nx[1]].Interfaces[nx[2]].Link = name }

\* C15: in a compiled topology, for every link the number of interfaces
\* over all nodes whose Link field is the link's name equals the number of
\* endpoints of the link.
C15_OneInterfacePerEndpoint ==
    CompileSucceeded =>
        \A i \in DOMAIN topo.Links :
            Cardinality(AttachedTo(topo, topo.Links[i].Name))
                = Len(topo.Links[i].Endpoints)

\* the intent d with its node map ranged over in order o
Traversed(d, o) == [d EXCEPT !.mapOrder = o]

\* C16: whatever order the node map is ranged over in, FromYAML gives the
\* same result for an intent: the same error or the same topology, with the
\* same names, loopbacks, addresses, interfaces in the same order and the
\* same pool cursors.
C16_CompileIsDeterministic ==
    last.cmd = "FromYAML" =>
        \A o \in Orders(DOMAIN data.nodes) :
            FromYAML(Traversed(data, o)) = [err |-> last.err, topo |-> topo]

\* two nodes took their loopbacks from the pool and the node map was ranged
\* over in an order other than the sorted one
C16_Witness ==
    /\ CompileSucceeded
    /\ data.mapOrder # Sorted(data.mapOrder)
    /\ ~data.pool.RawLoopbacks.isNil
    /\ \E n1, n2 \in DOMAIN data.nodes :
          /\ n1 # n2
          /\ data.nodes[n1].Loopbacks.isNil
          /\ data.nodes[n2].Loopbacks.isNil
          /\ topo.Nodes[n1].Loopbacks # topo.Nodes[n2].Loopbacks

\* C17: when the first link of an intent has fewer than two endpoints,
\* FromYAML fails with ErrTooFewEndpoints, whether the link declares
\* subnets, draws them from the starting pool, or has neither (the subnets
\* that are given being well-formed).
C17_TooFewEndpointsReported ==
    (/\ last.cmd = "FromYAML"
     /\ ~data.corrupt
     /\ Len(data.links) > 0
     /\ Len(data.links[1].Endpoints) < 2
     /\ ~AnyInvalidCIDR(data.links[1].RawSubnets.elems)
     /\ ~AnyInvalidCIDR(data.pool.RawLinks.elems))
    => last.err = ErrTooFewEndpoints

\* the subnets that enrichment resolves for the first link of the intent:
\* the declared ones, or the starting values of the pool
FirstLinkSubnets ==
    LET raws == IF data.links[1].RawSubnets.isNil
                THEN data.pool.RawLinks.elems
                ELSE data.links[1].RawSubnets.elems
    IN [k \in DOMAIN raws |-> ParseCIDR(raws[k]).ipnet]

WellFormedEndpoints(eps) ==
    /\ Len(eps) >= 2
    /\ \A j \in DOMAIN eps :
          /\ Len(eps[j]) = 2
          /\ eps[j][1] \in DOMAIN data.nodes
          /\ eps[j][2] \in EthNames

\* position pos is beyond the host addresses of sn: the addresses of the
\* subnet after its network address
BeyondHosts(pos, sn) ==
    LET hostLen == 8 * Len(sn.IP) - sn.Ones
    IN hostLen < 30 /\ pos > 2^hostLen - 1

NoDeclaredSubnet(i) == Len(data.links[i].RawSubnets.elems) = 0

\* the intent configures no starting pool for links
NoLinkPool == data.pool.isNil \/ data.pool.RawLinks.isNil

\* C19: when no starting pool for links is configured, a first link with no
\* declared subnet (ip_subnets absent or empty) makes FromYAML fail with
\* ErrMissingSubnets, and no link without declared subnet is compiled into
\* a link with zero subnets.
C19_MissingSubnetsReported ==
    (last.cmd = "FromYAML" /\ ~data.corrupt /\ NoLinkPool) =>
        /\ (Len(data.links) > 0 /\ NoDeclaredSubnet(1))
              => last.err = ErrMissingSubnets
        /\ last.err = Nil =>
              \A i \in DOMAIN topo.Links :
                 NoDeclaredSubnet(i) => Len(topo.Links[i].Subnets) > 0

\* the pattern R<n>: the letter R, then one or more decimal digits that
\* spell a number from 1 to 253
IsRn(name) ==
    /\ Len(name) >= 2
    /\ name[1] = "R"
    /\ \A i \in 2..Len(name) : IsDigit(name[i])
    /\ Decimal(Tail(name)) >= 1
    /\ Decimal(Tail(name)) <= 253

\* C20: isValidNodeName accepts a node key exactly when the key is the
\* letter R followed by a decimal number n with 1 <= n <= 253.
C20_AcceptsExactlyRn == valid.done => (valid.ok <=> IsRn(key))

\* the network k subnets of the same prefix length after ipnet, counted in
\* the address space taken as unsigned integers of the address's width
SubnetAfter(ipnet, k) ==
    LET hostLen == 8 * Len(ipnet.IP) - ipnet.Ones
        byte == Len(ipnet.IP) - (hostLen \div 8)
    IN IPNet(addAt(ipnet.IP, byte, k * 2^(hostLen % 8)), ipnet.Ones)

\* the subnets the starting pool of the intent names for links
PoolStart ==
    [j \in DOMAIN data.pool.RawLinks.elems |->
        ParseCIDR(data.pool.RawLinks.elems[j]).ipnet]

\* C21: in a compiled topology a link that declares subnets holds exactly
\* those, the k-th link that drew from the pool holds, family by family, the
\* k-th subnet counted from the starting pool, and the cursor ends as many
\* subnets after the starting pool as links drew from it: a declaring link
\* does not move it, a drawing link moves it by one.
C21_PoolCursor ==
    CompileSucceeded =>
        /\ \A i \in DOMAIN topo.Links :
              IF i \in PoolLinks
              THEN /\ DOMAIN topo.Links[i].Subnets = DOMAIN PoolStart
                   /\ \A j \in DOMAIN PoolStart :
                         topo.Links[i].Subnets[j] =
                            SubnetAfter(PoolStart[j],
                                Cardinality({p \in PoolLinks : p < i}))
              ELSE topo.Links[i].Subnets =
                      [j \in DOMAIN data.links[i].RawSubnets.elems |->
                          ParseCIDR(data.links[i].RawSubnets.elems[j]).ipnet]
        /\ IF PoolLinks = {}
           THEN topo.IPStartFrom.RawLinks = data.pool.RawLinks
           ELSE topo.IPStartFrom.RawLinks.elems =
                   [j \in DOMAIN PoolStart |->
                       String(SubnetAfter(PoolStart[j], Cardinality(PoolLinks)))]

C21_Witness ==
    /\ CompileSucceeded
    /\ Len(topo.Links) = 2
    /\ PoolLinks = {2}
    /\ Len(topo.Links[1].Subnets) = 2
    /\ Len(topo.Links[2].Subnets) = 2
    /\ topo.IPStartFrom.RawLinks # data.pool.RawLinks

Validated == last.cmd = "FromYAML" /\ last.err = NoError

\* addr is the network of subnet plus n, with the subnet's prefix length
HostOf(subnet, n, addr) ==
    \E s \in {ParseCIDRText(subnet)}, a \in {ParseCIDRText(addr)} :
        /\ a.err = Nil
        /\ a.ip = addAt(s.ipnet.IP, Len(s.ipnet.IP), n)
        /\ a.ipnet.Ones = s.ipnet.Ones

\* C22: for host index N (the number of the node's key) the IPv4 address
\* and the IPv6 address of every interface are each the network address of
\* the link's subnet plus N as an unsigned integer, written with the
\* subnet's prefix length.
C22_HostArithmetic ==
    Validated =>
        \A i \in DOMAIN topo.Links : \A n \in DOMAIN topo.Nodes :
            \A k \in DOMAIN topo.Nodes[n].Interfaces :
                topo.Nodes[n].Interfaces[k].Link = topo.Links[i].Name =>
                    /\ HostOf(topo.Links[i].IPv4Subnet, getIndex(n),
                              topo.Nodes[n].Interfaces[k].IPv4Addr)
                    /\ HostOf(topo.Links[i].IPv6Subnet, getIndex(n),
                              topo.Nodes[n].Interfaces[k].IPv6Addr)

\* C23: two links of one validated topology that have different endpoint
\* lists and no declared subnet never receive the same generated IPv4 or
\* IPv6 subnet, whether they have two endpoints or more.
C23_SubnetPerLink ==
    Validated =>
        \A i \in DOMAIN topo.Links : \A j \in DOMAIN topo.Links :
            (/\ i # j
             /\ data.links[i].Endpoints # data.links[j].Endpoints
             /\ data.links[i].IPv4Subnet = <<>>
             /\ data.links[j].IPv4Subnet = <<>>
             /\ data.links[i].IPv6Subnet = <<>>
             /\ data.links[j].IPv6Subnet = <<>>)
            => /\ topo.Links[i].IPv4Subnet # topo.Links[j].IPv4Subnet
               /\ topo.Links[i].IPv6Subnet # topo.Links[j].IPv6Subnet

\* the node runs LDP on FRR
LDPOnFRR(node) == node.Vendor = "frr" /\ node.Protocols["ldp"] = "yes"

HasLoopback(node) ==
    \E k \in DOMAIN node.Interfaces : node.Interfaces[k].Name = "lo"

\* C24: after compilation a node carries the MPLS kernel parameters (the
\* label space, and the loopback's input parameter when it has a loopback)
\* and each of its non-loopback interfaces carries the MPLS driver option
\* exactly when its vendor is FRR and ldp is enabled on it; every other node
\* and interface carries none, in whatever order the node map was ranged
\* over.
C24_MPLSExactlyOnLDPNodes ==
    CompileSucceeded =>
        \A n \in DOMAIN topo.Nodes :
            LET node == topo.Nodes[n]
            IN /\ node.Sysctls =
                    IF LDPOnFRR(node)
                    THEN { <<"net.mpls.platform_labels", ToString(mplsLabels)>> }
                         \cup (IF HasLoopback(node)
                               THEN { <<"net.mpls.conf.lo.input", "1">> }
                               ELSE {})
                    ELSE {}
               /\ \A k \in DOMAIN node.Interfaces :
                     node.Interfaces[k].DriverOpts =
                        IF LDPOnFRR(node) /\ node.Interfaces[k].Name # "lo"
                        THEN MPLSDriverOpts ELSE {}

\* an FRR node with ldp, a loopback and a link beside a node of another
\* vendor with ldp on the same link, the map ranged over in reverse order
C24_Witness ==
    /\ CompileSucceeded
    /\ data.mapOrder # Sorted(data.mapOrder)
    /\ \E n1, n2 \in DOMAIN topo.Nodes :
          /\ LDPOnFRR(topo.Nodes[n1])
          /\ HasLoopback(topo.Nodes[n1])
          /\ \E k \in DOMAIN topo.Nodes[n1].Interfaces :
                topo.Nodes[n1].Interfaces[k].DriverOpts = MPLSDriverOpts
          /\ topo.Nodes[n2].Vendor # "frr"
          /\ topo.Nodes[n2].Protocols["ldp"] = "yes"
          /\ \E k \in DOMAIN topo.Nodes[n2].Interfaces :
                topo.Nodes[n2].Interfaces[k].Name # "lo"

\* the node's bind list contains the mount of its configuration directory
ConfigMounted(node) == \E b \in DOMAIN node.Binds : node.Binds[b][1] = node.Name

\* C25: after GenerateAndDump returns success, every node's bind list
\* contains the mount of its generated configuration directory, whether
\* the directory was created by this call or existed already and was
\* skipped.
C25_ConfigMountedAfterSuccess ==
    (last.cmd = "GenerateAndDump" /\ last.err = Nil) =>
        \A n \in DOMAIN topo.Nodes : ConfigMounted(topo.Nodes[n])

\* C26: in a successfully compiled topology all link names are pairwise
\* distinct, so the first Build, run against the empty backend, leaves
\* exactly one network per link.
C26_LinkNamesDistinct ==
    (Returned("Build") /\ last.err = Nil /\ prev = NoRun) =>
        /\ \A i, j \in DOMAIN topo.Links :
              i # j => topo.Links[i].Name # topo.Links[j].Name
        /\ Cardinality(dc.Networks) = Len(topo.Links)

\* C27: in a successfully compiled topology no interface attached to a link
\* carries an address that is a gateway of that link, whatever the number
\* of endpoints.
C27_NoEndpointOnGateway ==
    CompileSucceeded =>
        \A i \in DOMAIN topo.Links :
            \A nx \in AttachedTo(topo, topo.Links[i].Name) :
                \A a \in Addresses(topo.Nodes[nx[1]].Interfaces[nx[2]]) :
                    \A g \in DOMAIN topo.Links[i].Gateways :
                        a.ip # topo.Links[i].Gateways[g]

\* C28: within one link of a validated and compiled topology the addresses
\* of the interfaces made for its endpoints are pairwise distinct in each
\* address family.
C28_EndpointAddressesDistinct ==
    Validated =>
        \A i \in DOMAIN topo.Links :
            \A x, y \in AttachedTo(topo, topo.Links[i].Name) :
                x # y =>
                    /\ topo.Nodes[x[1]].Interfaces[x[2]].IPv4Addr
                          # topo.Nodes[y[1]].Interfaces[y[2]].IPv4Addr
                    /\ topo.Nodes[x[1]].Interfaces[x[2]].IPv6Addr
                          # topo.Nodes[y[1]].Interfaces[y[2]].IPv6Addr

\* C29: in a compiled topology a subnet that a link drew from the starting
\* pool overlaps no subnet declared on another link.
C29_PoolAvoidsDeclared ==
    CompileSucceeded =>
        \A i \in PoolLinks : \A j \in DOMAIN topo.Links \ PoolLinks :
            \A k \in DOMAIN topo.Links[i].Subnets :
                \A m \in DOMAIN topo.Links[j].Subnets :
                    ~Overlap(topo.Links[i].Subnets[k], topo.Links[j].Subnets[m])

\* C30: when validation fails, FromYAML returns the same error in whatever
\* order the node map is ranged over.
C30_ValidationDeterministic ==
    (last.cmd = "FromYAML" /\ last.err # NoError) =>
        \A o \in Orders(DOMAIN data.nodes) :
            ValidatedFromYAML(Traversed(data, o)).err = last.err

====
